---- MODULE Spec2Model ----
(***************************************************************************)
(* The recipe generator of app.py as a state machine.                      *)
(*                                                                         *)
(* A Python str is a sequence of one-character strings, so that strip,     *)
(* lower, split, join, slicing and re.sub are computed character by        *)
(* character as the interpreter computes them.  The script is re-run from  *)
(* top to bottom on every page load and every form submission; the two     *)
(* st.cache_resource functions are the only state that survives a run.     *)
(* The text-generation pipeline is the environment: a call to it either    *)
(* returns the prompt followed by a continuation, or raises.  The          *)
(* temperature is counted in tenths (0.2 is 2, 1.5 is 15).                 *)
(***************************************************************************)
EXTENDS Integers, Sequences, FiniteSets

VARIABLES
    pc,               \* "Start" (no run yet), "Idle", "Generating" (inside generator(...))
    setup_cache,      \* st.cache_resource entry of setup_and_download_model: <<>> or <<ret>>
    load_cache,       \* st.cache_resource entry of load_model: <<>> or <<ret>>
    downloads,        \* executions of the kaggle download command
    loads,            \* executions of the body of load_model
    model_ready,      \* script global, line 147
    generator,        \* script global, lines 180/185
    tokenizer,        \* script global, lines 181/185
    submit_button,    \* line 227
    title,            \* line 205
    ingredients_raw,  \* line 212
    temp,             \* line 222, in tenths
    max_tokens,       \* line 223
    call,             \* arguments of the generator call of the current run: <<>> or <<args>>
    full_text,        \* generated_output[0]['generated_text'] of the current run
    message,          \* the st.error of the generation logic in the current run ("" if none)
    output,           \* what output_container shows in the current run: <<>> or <<box>>
    submits,          \* form submissions so far
    calls,            \* generator calls made so far
    raised            \* generator calls that raised so far

vars == <<pc, setup_cache, load_cache, downloads, loads, model_ready, generator,
          tokenizer, submit_button, title, ingredients_raw, temp, max_tokens,
          call, full_text, message, output, submits, calls, raised>>

----------------------------------------------------------------------------
(* Bounds of the model. *)

MaxSubmits == 2
MaxTitlePieces == 2
MaxIngrPieces == 3
MaxContPieces == 4

----------------------------------------------------------------------------
(* Python str operations. *)

Whitespace == {" ", "\t", "\n", "\r", "\f"}

Digits == {"0", "1", "2", "3", "4", "5", "6", "7", "8", "9"}

UpperCase == <<"A", "B", "C", "D", "E", "F", "G", "H", "I", "J", "K", "L", "M",
               "N", "O", "P", "Q", "R", "S", "T", "U", "V", "W", "X", "Y", "Z">>

LowerCase == <<"a", "b", "c", "d", "e", "f", "g", "h", "i", "j", "k", "l", "m",
               "n", "o", "p", "q", "r", "s", "t", "u", "v", "w", "x", "y", "z">>

IsUpper(c) == \E i \in DOMAIN UpperCase : UpperCase[i] = c

IsLower(c) == \E i \in DOMAIN LowerCase : LowerCase[i] = c

lower_char(c) ==
    IF IsUpper(c) THEN LowerCase[CHOOSE i \in DOMAIN UpperCase : UpperCase[i] = c] ELSE c

upper_char(c) ==
    IF IsLower(c) THEN UpperCase[CHOOSE i \in DOMAIN LowerCase : LowerCase[i] = c] ELSE c

\* str.lower()
lower(s) == [i \in DOMAIN s |-> lower_char(s[i])]

\* str.title(): a cased character is upper-cased after an uncased one, lower-cased otherwise
title_case(s) ==
    [i \in DOMAIN s |->
        IF i > 1 /\ (IsUpper(s[i - 1]) \/ IsLower(s[i - 1]))
        THEN lower_char(s[i]) ELSE upper_char(s[i])]

\* str.strip()
strip(s) ==
    LET keep == {i \in DOMAIN s : s[i] \notin Whitespace}
    IN  IF keep = {} THEN <<>>
        ELSE LET first == CHOOSE i \in keep : \A j \in keep : i <= j
                 last == CHOOSE i \in keep : \A j \in keep : j <= i
             IN  SubSeq(s, first, last)

\* str.find(sub) + 1: the index of the first occurrence of sub in s, 0 when there is none
find(s, sub) ==
    LET at == {i \in 1..(Len(s) - Len(sub) + 1) : SubSeq(s, i, i + Len(sub) - 1) = sub}
    IN  IF at = {} THEN 0 ELSE CHOOSE i \in at : \A j \in at : i <= j

\* sub in s
contains(s, sub) == find(s, sub) > 0

\* s.split(sep), sep not empty
RECURSIVE split(_, _)
split(s, sep) ==
    LET i == find(s, sep)
    IN  IF i = 0 THEN <<s>>
        ELSE <<SubSeq(s, 1, i - 1)>> \o split(SubSeq(s, i + Len(sep), Len(s)), sep)

\* sep.join(parts)
RECURSIVE join(_, _)
join(parts, sep) ==
    IF parts = <<>> THEN <<>>
    ELSE IF Len(parts) = 1 THEN parts[1]
    ELSE parts[1] \o sep \o join(Tail(parts), sep)

\* The length of the match of r' (\d+\.)' at the start of s, 0 when it does not match there
match_step(s) ==
    IF s = <<>> \/ s[1] # " " THEN 0
    ELSE LET stop == {i \in 2..Len(s) : s[i] \notin Digits}
             end == IF stop = {} THEN Len(s) + 1
                    ELSE CHOOSE i \in stop : \A j \in stop : i <= j
         IN  IF end > 2 /\ end <= Len(s) /\ s[end] = "." THEN end ELSE 0

BR == <<"<", "b", "r", ">", "<", "b", "r", ">">>

\* A reflow that keeps the matched space: r'<br><br> \1'
RECURSIVE re_sub_keeps_space(_)
re_sub_keeps_space(s) ==
    IF s = <<>> THEN <<>>
    ELSE LET n == match_step(s)
         IN  IF n > 0
             THEN BR \o SubSeq(s, 1, n) \o re_sub_keeps_space(SubSeq(s, n + 1, Len(s)))
             ELSE <<s[1]>> \o re_sub_keeps_space(Tail(s))

\* re.sub(r' (\d+\.)', r'<br><br>\1', s): leftmost non-overlapping matches
RECURSIVE re_sub(_)
re_sub(s) ==
    IF s = <<>> THEN <<>>
    ELSE LET n == match_step(s)
         IN  IF n > 0 THEN BR \o SubSeq(s, 2, n) \o re_sub(SubSeq(s, n + 1, Len(s)))
             ELSE <<s[1]>> \o re_sub(Tail(s))

----------------------------------------------------------------------------
(* The loaded tokenizer and the arguments of the pipeline call. *)

\* tokenizer.eos_token of the GPT-2 tokenizer
eos_token == <<"<", "|", "e", "n", "d", "o", "f", "t", "e", "x", "t", "|", ">">>

\* tokenizer.eos_token_id, an opaque identifier
eos_token_id == "eos_token_id"

no_repeat_ngram_size == 2

top_k == 50

TempMin == 2

TempMax == 15

TempDefault == 7

MaxTokensMin == 50

MaxTokensMax == 250

MaxTokensStep == 10

MaxTokensDefault == 150

Temps == TempMin..TempMax

MaxTokens == {n \in MaxTokensMin..MaxTokensMax : (n - MaxTokensMin) % MaxTokensStep = 0}

TitleDefault ==
    <<"S", "p", "i", "c", "y", " ", "C", "h", "i", "c", "k", "e", "n", " ",
      "P", "a", "s", "t", "a">>

IngredientsDefault ==
    <<"c", "h", "i", "c", "k", "e", "n", " ", "b", "r", "e", "a", "s", "t", ",", " ",
      "p", "a", "s", "t", "a", ",", " ", "c", "a", "y", "e", "n", "n", "e", " ",
      "p", "e", "p", "p", "e", "r", ",", " ", "o", "l", "i", "v", "e", " ", "o", "i", "l",
      ",", " ", "g", "a", "r", "l", "i", "c", ",", " ", "t", "o", "m", "a", "t", "o", "e", "s">>

----------------------------------------------------------------------------
(* Prompt construction, lines 243-251. *)

title_clean(t) == lower(strip(t))

\* A cleaning that trims and lower-cases the list as a whole, not field by field
ingredients_clean_whole(raw) == join(split(lower(strip(raw)), <<",">>), <<",", " ">>)

ingredients_clean(raw) ==
    LET parts == split(raw, <<",">>)
    IN  join([k \in DOMAIN parts |-> lower(strip(parts[k]))], <<",", " ">>)

prompt(t, raw) ==
    <<"T", "I", "T", "L", "E", ":", " ">> \o title_clean(t)
    \o <<"\n", "I", "N", "G", "R", "E", "D", "I", "E", "N", "T", "S", ":", " ">>
    \o ingredients_clean(raw)
    \o <<"\n", "R", "E", "C", "I", "P", "E", ":">>

\* The test of line 238: "not title or not ingredients_raw"
inputs_missing(t, raw) == t = <<>> \/ raw = <<>>

\* A call that leaves the temperature at the slider's default
generator_args_default_temperature(t, raw, tmp, toks) ==
    [prompt |-> prompt(t, raw),
     max_new_tokens |-> toks,
     no_repeat_ngram_size |-> no_repeat_ngram_size,
     temperature |-> TempDefault,
     top_k |-> top_k,
     eos_token_id |-> eos_token_id,
     pad_token_id |-> eos_token_id]

\* The keyword arguments of lines 255-263
generator_args(t, raw, tmp, toks) ==
    [prompt |-> prompt(t, raw),
     max_new_tokens |-> toks,
     no_repeat_ngram_size |-> no_repeat_ngram_size,
     temperature |-> tmp,
     top_k |-> top_k,
     eos_token_id |-> eos_token_id,
     pad_token_id |-> eos_token_id]

----------------------------------------------------------------------------
(* Output post-processing, lines 266-277. *)

\* A slice that starts one character early: full_text[len(prompt) - 1:]
recipe_part_off_by_one(text, p) == strip(SubSeq(text, Len(p), Len(text)))

\* line 267
recipe_part(text, p) == strip(SubSeq(text, Len(p) + 1, Len(text)))

\* A truncation that removes the markers and keeps what follows them
truncate_eos_keeps_rest(r) == join(split(r, eos_token), <<>>)

\* lines 270-271
truncate_eos(r) == IF contains(r, eos_token) THEN split(r, eos_token)[1] ELSE r

\* lines 270-275: end-of-sequence truncation, then the step reflow
format_recipe(r) == strip(re_sub(truncate_eos(r)))

\* line 277
formatted_recipe_html(text, p) ==
    <<"<", "p", ">">> \o format_recipe(recipe_part(text, p)) \o <<"<", "/", "p", ">">>

----------------------------------------------------------------------------
(* Model download and model loading, lines 85-185. *)

\* What a run of setup_and_download_model can meet outside the program
SetupEnvs ==
    [folder_exists : BOOLEAN, secrets : BOOLEAN, write_ok : BOOLEAN,
     download : {"ok", "CalledProcessError", "Exception"}]

\* What a run of load_model can meet: from_pretrained/pipeline return or raise
LoadEnvs == {"ok", "raises"}

\* Lines 89-142.  raised: an exception left the function (lines 102-111 are outside
\* any try); downloaded: the kaggle command of line 123 was run.
setup_and_download_model(env) ==
    IF ~env.folder_exists
    THEN IF ~env.secrets
         THEN [ret |-> FALSE, raised |-> FALSE, downloaded |-> FALSE]
         ELSE IF ~env.write_ok
         THEN [ret |-> FALSE, raised |-> TRUE, downloaded |-> FALSE]
         ELSE [ret |-> env.download = "ok", raised |-> FALSE, downloaded |-> TRUE]
    ELSE [ret |-> TRUE, raised |-> FALSE, downloaded |-> FALSE]

\* Lines 151-177: the pipeline and the tokenizer, or (None, None)
load_model(env) ==
    IF env = "ok"
    THEN [generator |-> "pipeline", tokenizer |-> "tokenizer"]
    ELSE [generator |-> "None", tokenizer |-> "None"]

\* A cache that keeps nothing
cache_store_nothing(ret) == <<>>

\* @st.cache_resource: the entry kept after a call whose body returned ret
cache_store(ret) == <<ret>>

\* A cache that is never consulted
cache_hit_never(cache) == FALSE

\* @st.cache_resource: whether the call is answered from the cache
cache_hit(cache) == cache # <<>>

\* The environments a run can meet: a body that is not run consults none
SetupEnvsNow ==
    IF cache_hit(setup_cache)
    THEN {[folder_exists |-> TRUE, secrets |-> TRUE, write_ok |-> TRUE, download |-> "ok"]}
    ELSE SetupEnvs

LoadEnvsNow == IF cache_hit(load_cache) THEN {"ok"} ELSE LoadEnvs

\* Lines 147-185 of one run of the script
startup(envS, envL) ==
    LET s == setup_and_download_model(envS)
        ranS == ~cache_hit(setup_cache)
        aborted == ranS /\ s.raised
        ready == IF ranS THEN s.ret ELSE setup_cache[1]
        callL == ~aborted /\ ready
        ranL == callL /\ ~cache_hit(load_cache)
        l == IF ~callL THEN [generator |-> "None", tokenizer |-> "None"]
             ELSE IF ranL THEN load_model(envL) ELSE load_cache[1]
    IN  [aborted |-> aborted,
         model_ready |-> ~aborted /\ ready,
         generator |-> l.generator,
         tokenizer |-> l.tokenizer,
         setup_cache |-> IF ranS /\ ~aborted THEN cache_store(s.ret) ELSE setup_cache,
         load_cache |-> IF ranL THEN cache_store(l) ELSE load_cache,
         downloads |-> IF ranS /\ s.downloaded THEN downloads + 1 ELSE downloads,
         loads |-> IF ranL THEN loads + 1 ELSE loads]

----------------------------------------------------------------------------
(* Messages of st.error. *)

MsgValidation == "Please provide both a title and ingredients."

MsgGeneration == "An error occurred during generation"

MsgLoadFailed == "Model is ready but failed to load. Please check the app logs."

MsgDownloadFailed ==
    "Model download failed. The app cannot function. Please check your Kaggle API secrets and dataset path."

MsgUncaught == "uncaught exception"

\* Lines 291-294: the branches taken when line 237 is false
unavailable_message(h) ==
    IF h.generator = "None" /\ h.model_ready THEN MsgLoadFailed
    ELSE IF ~h.model_ready THEN MsgDownloadFailed
    ELSE ""

----------------------------------------------------------------------------
(* The state machine. *)

Init ==
    /\ pc = "Start"
    /\ setup_cache = <<>>
    /\ load_cache = <<>>
    /\ downloads = 0
    /\ loads = 0
    /\ model_ready = FALSE
    /\ generator = "None"
    /\ tokenizer = "None"
    /\ submit_button = FALSE
    /\ title = TitleDefault
    /\ ingredients_raw = IngredientsDefault
    /\ temp = TempDefault
    /\ max_tokens = MaxTokensDefault
    /\ call = <<>>
    /\ full_text = <<>>
    /\ message = ""
    /\ output = <<>>
    /\ submits = 0
    /\ calls = 0
    /\ raised = 0

\* The part of a run every run shares: lines 147-185 and the widgets
RunStartup(h, submit, t, raw, tmp, toks) ==
    /\ setup_cache' = h.setup_cache
    /\ load_cache' = h.load_cache
    /\ downloads' = h.downloads
    /\ loads' = h.loads
    /\ model_ready' = h.model_ready
    /\ generator' = h.generator
    /\ tokenizer' = h.tokenizer
    /\ submit_button' = submit
    /\ title' = t
    /\ ingredients_raw' = raw
    /\ temp' = tmp
    /\ max_tokens' = toks
    /\ full_text' = <<>>
    /\ output' = <<>>
    /\ raised' = raised

\* A run of the script with the form not submitted: a page load
PageLoad ==
    /\ pc \in {"Start", "Idle"}
    /\ \E envS \in SetupEnvsNow, envL \in LoadEnvsNow :
         LET h == startup(envS, envL)
         IN  /\ RunStartup(h, FALSE, TitleDefault, IngredientsDefault,
                           TempDefault, MaxTokensDefault)
             /\ message' = IF h.aborted THEN MsgUncaught ELSE unavailable_message(h)
    /\ pc' = "Idle"
    /\ call' = <<>>
    /\ UNCHANGED <<submits, calls>>

\* A run of the script with the form submitted, up to the end of the run or to the
\* call of the pipeline (line 255)
SubmitWith(t, raw, tmp, toks, envS, envL) ==
    LET h == startup(envS, envL)
        generating == ~h.aborted /\ h.generator # "None" /\ ~inputs_missing(t, raw)
    IN  /\ RunStartup(h, TRUE, t, raw, tmp, toks)
        /\ message' = IF h.aborted THEN MsgUncaught
                      ELSE IF h.generator # "None"
                      THEN (IF inputs_missing(t, raw) THEN MsgValidation ELSE "")
                      ELSE unavailable_message(h)
        /\ pc' = IF generating THEN "Generating" ELSE "Idle"
        /\ call' = IF generating THEN <<generator_args(t, raw, tmp, toks)>> ELSE <<>>
        /\ calls' = IF generating THEN calls + 1 ELSE calls

Submit(Titles, Ingrs, Tmps, Toks, cap) ==
    /\ pc = "Idle"
    /\ submits < cap
    /\ submits' = submits + 1
    /\ \E t \in Titles, raw \in Ingrs, tmp \in Tmps, toks \in Toks,
          envS \in SetupEnvsNow, envL \in LoadEnvsNow :
         SubmitWith(t, raw, tmp, toks, envS, envL)

\* The pipeline returns the prompt followed by a continuation: lines 266-286
GenReturn(Conts) ==
    /\ pc = "Generating"
    /\ \E cont \in Conts :
         LET text == call[1].prompt \o cont
         IN  /\ full_text' = text
             /\ output' = <<[h3 |-> title_case(title),
                             html |-> formatted_recipe_html(text, call[1].prompt)]>>
    /\ pc' = "Idle"
    /\ UNCHANGED <<setup_cache, load_cache, downloads, loads, model_ready, generator,
                   tokenizer, submit_button, title, ingredients_raw, temp,
                   max_tokens, call, message, submits, calls, raised>>

\* A handler that also clears the memoized model: st.cache_resource.clear()
GenRaise_clears_cache ==
    /\ pc = "Generating"
    /\ message' = MsgGeneration
    /\ raised' = raised + 1
    /\ pc' = "Idle"
    /\ load_cache' = <<>>
    /\ UNCHANGED <<setup_cache, downloads, loads, model_ready, generator,
                   tokenizer, submit_button, title, ingredients_raw, temp,
                   max_tokens, call, full_text, output, submits, calls>>

\* The pipeline raises: lines 288-289
GenRaise ==
    /\ pc = "Generating"
    /\ message' = MsgGeneration
    /\ raised' = raised + 1
    /\ pc' = "Idle"
    /\ UNCHANGED <<setup_cache, load_cache, downloads, loads, model_ready, generator,
                   tokenizer, submit_button, title, ingredients_raw, temp,
                   max_tokens, call, full_text, output, submits, calls>>

----------------------------------------------------------------------------
(* Inputs of the bounded checks: strings built from at most n pieces. *)

RECURSIVE Concat(_)
Concat(ps) == IF ps = <<>> THEN <<>> ELSE Head(ps) \o Concat(Tail(ps))

Built(Pieces, n) ==
    {Concat(ps) : ps \in UNION {[1..k -> Pieces] : k \in 0..n}}

TitlePieces == {<<" ">>, <<"a">>, <<"B">>}

IngrPieces == {<<" ">>, <<",">>, <<"a">>, <<"B">>}

ContPieces ==
    {<<" ">>, <<"\n">>, <<"1">>, <<".">>, <<"a">>, <<" ", "2", ".">>, eos_token}

SomeTitles == {<<>>, <<" ">>, <<" ", "A", "b", " ">>}

SomeIngrs == {<<>>, <<" ">>, <<"a", " ", ",", "B", ",">>}

SomeConts ==
    {<<" ", "1", ".", " ", "a", ".", " ", "2", ".", " ", "b", ".">>,
     <<"a", ".">> \o eos_token \o <<"b">>}

SomeTemps == {TempDefault}

SomeMaxTokens == {MaxTokensDefault}

\* The application, with a few inputs of every kind
Next ==
    \/ PageLoad
    \/ Submit(SomeTitles, SomeIngrs, SomeTemps, SomeMaxTokens, MaxSubmits)
    \/ GenReturn(SomeConts)
    \/ GenRaise

Spec == Init /\ [][Next]_vars

\* Every title, ingredient string and continuation of the bounds
AllTitles == Built(TitlePieces, MaxTitlePieces)

AllIngrs == Built(IngrPieces, MaxIngrPieces)

AllConts == Built(ContPieces, MaxContPieces)

\* The prompt builder, over every title and ingredient string of the bounds
NextPrompt ==
    \/ PageLoad
    \/ Submit(AllTitles, AllIngrs,
              {TempDefault}, {MaxTokensDefault}, 1)
    \/ GenReturn({<<>>})
    \/ GenRaise

SpecPrompt == Init /\ [][NextPrompt]_vars

\* The formatter, over every continuation of the bounds and two prompts
NextFormat ==
    \/ PageLoad
    \/ Submit({<<"a">>, <<"B", " ", "a">>}, {<<"a", ",", "B">>},
              {TempDefault}, {MaxTokensDefault}, 1)
    \/ GenReturn(AllConts)
    \/ GenRaise

SpecFormat == Init /\ [][NextFormat]_vars

\* The sliders, over every position of both
NextParams ==
    \/ PageLoad
    \/ Submit({<<"a">>}, {<<"a", ",", "B">>}, Temps, MaxTokens, 1)
    \/ GenReturn({<<" ", "a", ".">>})
    \/ GenRaise

SpecParams == Init /\ [][NextParams]_vars

----------------------------------------------------------------------------
(* Vocabulary of the properties, stated without the program's operators. *)

Blank(s) == \A i \in DOMAIN s : s[i] \in Whitespace

RECURSIVE TrimLeft(_)
TrimLeft(s) == IF s # <<>> /\ Head(s) \in Whitespace THEN TrimLeft(Tail(s)) ELSE s

RECURSIVE TrimRight(_)
TrimRight(s) ==
    IF s # <<>> /\ s[Len(s)] \in Whitespace THEN TrimRight(SubSeq(s, 1, Len(s) - 1)) ELSE s

Trimmed(s) == TrimRight(TrimLeft(s))

Lowered(s) ==
    [i \in DOMAIN s |->
        IF \E k \in DOMAIN UpperCase : UpperCase[k] = s[i]
        THEN LowerCase[CHOOSE k \in DOMAIN UpperCase : UpperCase[k] = s[i]]
        ELSE s[i]]

NoOuterWhitespace(s) == s = <<>> \/ (s[1] \notin Whitespace /\ s[Len(s)] \notin Whitespace)

\* The positions of the commas of s, and the k-th field they delimit
Commas(s) == {i \in DOMAIN s : s[i] = ","}

FieldStart(s, k) ==
    IF k = 1 THEN 1
    ELSE 1 + CHOOSE i \in Commas(s) : Cardinality({j \in Commas(s) : j < i}) = k - 2

FieldEnd(s, k) ==
    IF k = Cardinality(Commas(s)) + 1 THEN Len(s)
    ELSE (CHOOSE i \in Commas(s) : Cardinality({j \in Commas(s) : j < i}) = k - 1) - 1

Field(s, k) == SubSeq(s, FieldStart(s, k), FieldEnd(s, k))

\* The positions where the marker occurs in s
MarkerAt(s) ==
    {i \in 1..(Len(s) - Len(eos_token) + 1) :
        \A k \in 1..Len(eos_token) : s[i + k - 1] = eos_token[k]}

HasMarker(s) == MarkerAt(s) # {}

BeforeMarker(s) ==
    SubSeq(s, 1, (CHOOSE i \in MarkerAt(s) : \A j \in MarkerAt(s) : i <= j) - 1)

\* The spaces of s followed by one or more digits and a period
StepSpaces(s) ==
    {i \in DOMAIN s :
        /\ s[i] = " "
        /\ \E j \in (i + 2)..Len(s) :
             /\ s[j] = "."
             /\ \A k \in (i + 1)..(j - 1) : s[k] \in Digits}

\* s with the separator in place of each of these spaces
Reflowed(s) ==
    Concat([i \in DOMAIN s |-> IF i \in StepSpaces(s) THEN BR ELSE <<s[i]>>])

\* What the pipeline appended to the prompt in the current run
Continuation == SubSeq(full_text, Len(call[1].prompt) + 1, Len(full_text))

\* The recipe text shown: the content of the paragraph of the recipe box
Displayed == SubSeq(output[1].html, 4, Len(output[1].html) - 4)

Fatal == {MsgLoadFailed, MsgDownloadFailed}

----------------------------------------------------------------------------
(* The properties. *)

\* C1: a submission whose title or ingredients are empty or whitespace-only, made
\* while the model is available, never calls the pipeline and reports the
\* validation error.
C1_BlankInputIsRejected ==
    (submit_button /\ generator # "None" /\ (Blank(title) \/ Blank(ingredients_raw)))
        => (pc # "Generating" /\ call = <<>> /\ message = MsgValidation)

\* The same for empty inputs only: the test the code makes.
EmptyInputIsRejected ==
    (submit_button /\ generator # "None" /\ (title = <<>> \/ ingredients_raw = <<>>))
        => (pc # "Generating" /\ call = <<>> /\ message = MsgValidation)

\* The ingredient list the template asks for: field k of the raw string, trimmed and
\* lower-cased, the fields in their order with ", " between them
RECURSIVE CleanFieldsFrom(_, _)
CleanFieldsFrom(raw, k) ==
    IF k = Cardinality(Commas(raw)) + 1 THEN Lowered(Trimmed(Field(raw, k)))
    ELSE Lowered(Trimmed(Field(raw, k))) \o <<",", " ">> \o CleanFieldsFrom(raw, k + 1)

Template(t, i) ==
    <<"T", "I", "T", "L", "E", ":", " ">> \o t
    \o <<"\n", "I", "N", "G", "R", "E", "D", "I", "E", "N", "T", "S", ":", " ">> \o i
    \o <<"\n", "R", "E", "C", "I", "P", "E", ":">>

\* C2: a submission with a non-empty title and non-empty ingredients, made while the
\* model is available, calls the pipeline with the template filled with the title
\* trimmed and lower-cased as a whole and with every comma-separated field trimmed
\* and lower-cased, in order, joined with ", ", as many fields as were typed.
C2_PromptIsTemplate ==
    (submit_button /\ generator # "None" /\ title # <<>> /\ ingredients_raw # <<>>)
        => /\ call # <<>>
           /\ call[1].prompt =
                Template(Lowered(Trimmed(title)), CleanFieldsFrom(ingredients_raw, 1))
           /\ Cardinality(Commas(ingredients_clean(ingredients_raw)))
                = Cardinality(Commas(ingredients_raw))

\* C2 witness: a call whose title and fields carry outer whitespace and upper case,
\* with an empty field that is kept.
C2_Witness ==
    /\ call # <<>>
    /\ title = <<" ", "B">>
    /\ ingredients_raw = <<"B", ",", " ">>
    /\ call[1].prompt = Template(<<"b">>, <<"b", ",", " ">>)

\* C3: when the continuation holds no end-of-sequence marker, the recipe text shown
\* is the trimmed continuation with the separator in place of every space that is
\* followed by digits and a period, nothing of the prompt, and no outer whitespace.
C3_DisplayIsReflowedContinuation ==
    (output # <<>> /\ ~HasMarker(Continuation))
        => /\ Displayed = Reflowed(Trimmed(Continuation))
           /\ NoOuterWhitespace(Displayed)

\* C3 witness: a continuation with leading whitespace and a step in the middle.
C3_Witness ==
    /\ output # <<>>
    /\ ~HasMarker(Continuation)
    /\ Continuation # Trimmed(Continuation)
    /\ StepSpaces(Trimmed(Continuation)) # {}
    /\ contains(Displayed, BR)

\* C4: when the continuation holds the end-of-sequence marker, the recipe text shown
\* is built from the part before the marker's first occurrence alone, and never
\* holds the marker.
C4_DisplayStopsAtMarker ==
    (output # <<>> /\ HasMarker(Continuation))
        => /\ Displayed = Reflowed(Trimmed(BeforeMarker(Continuation)))
           /\ ~HasMarker(Displayed)

\* C4 witness: text on both sides of the marker.
C4_Witness ==
    /\ output # <<>>
    /\ HasMarker(Continuation)
    /\ Displayed # <<>>
    /\ Len(Continuation) > Len(BeforeMarker(Continuation)) + Len(eos_token)

\* C5: a pipeline call that raises ends the request Idle with the failure message
\* and no recipe, changes neither the memoized model nor the availability, and a
\* valid submission that follows is passed to the pipeline as any other.
C5_FailureIsRecovered ==
    [][/\ (pc = "Generating" /\ raised' # raised)
            => /\ pc' = "Idle"
               /\ message' = MsgGeneration
               /\ output' = <<>>
               /\ <<setup_cache, load_cache, model_ready, generator, tokenizer>>'
                    = <<setup_cache, load_cache, model_ready, generator, tokenizer>>
       /\ (message = MsgGeneration /\ submit_button' /\ submits' # submits
             /\ title' # <<>> /\ ingredients_raw' # <<>>)
            => /\ pc' = "Generating"
               /\ calls' = calls + 1
               /\ call' # <<>>
               /\ call'[1].temperature = temp'
               /\ call'[1].max_new_tokens = max_tokens'
               /\ message' = ""]_vars

\* C5 witness: a call in flight after a call that raised.
C5_Witness == pc = "Generating" /\ raised > 0

\* C6: once a run has reported that the model is unavailable, every later run reports
\* the same message and none reaches the pipeline, whatever was submitted.
C6_UnavailableForGood ==
    [][(pc = "Idle" /\ message \in Fatal)
          => (pc' = "Idle" /\ message' = message /\ call' = <<>> /\ calls' = calls)]_vars

\* C6 witness: a submission with a title and ingredients answered by the fatal message.
C6_Witness ==
    /\ submit_button
    /\ submits > 1
    /\ message \in Fatal
    /\ ~Blank(title)
    /\ ~Blank(ingredients_raw)

\* C7: formatting the formatted text again changes nothing, and no space followed by
\* digits and a period is left in it.
C7_FormatIsIdempotent ==
    output # <<>> => (format_recipe(Displayed) = Displayed /\ StepSpaces(Displayed) = {})

\* C7 witness: a formatted text in which a separator was inserted.
C7_Witness == output # <<>> /\ contains(Displayed, BR) /\ HasMarker(Continuation)

\* C8: a submission with non-empty title and ingredients, made while the model is
\* available, raises no validation error whatever the sliders say, and the pipeline
\* receives the two slider values as they are with top_k 50, no-repeat size 2 and
\* the end-of-sequence identifier as both eos and pad identifier.
C8_SlidersPassThrough ==
    (submit_button /\ generator # "None" /\ title # <<>> /\ ingredients_raw # <<>>)
        => /\ message # MsgValidation
           /\ call # <<>>
           /\ call[1].temperature = temp
           /\ call[1].max_new_tokens = max_tokens
           /\ call[1].top_k = 50
           /\ call[1].no_repeat_ngram_size = 2
           /\ call[1].eos_token_id = eos_token_id
           /\ call[1].pad_token_id = eos_token_id

\* C8 witness: a call with the temperature at its maximum and the length at its minimum.
C8_Witness ==
    /\ call # <<>>
    /\ temp = 15
    /\ max_tokens = 50
    /\ call[1].temperature = 15
    /\ call[1].max_new_tokens = 50

\* C9: Generating is entered only by a submission with a title and ingredients that
\* are neither empty nor whitespace-only, while the model is available, and each such
\* entry is one pipeline call.
C9_GeneratingOnlyOnValidSubmit ==
    [][(pc # "Generating" /\ pc' = "Generating")
          => /\ submit_button'
             /\ generator' # "None"
             /\ ~Blank(title')
             /\ ~Blank(ingredients_raw')
             /\ calls' = calls + 1]_vars

\* The rest of the request flow: while Generating the run has made its one call and
\* shown nothing yet, and the return and the failure of the call both lead to Idle.
OneCallInFlight ==
    pc = "Generating"
        => (call # <<>> /\ submit_button /\ generator # "None" /\ output = <<>>
            /\ message = "" /\ full_text = <<>> /\ calls > raised)

GeneratingEndsIdle == [][pc = "Generating" => pc' = "Idle"]_vars

\* C10: the model is loaded, and the download run, at most once; a loaded handle is
\* never replaced, and every run that has a model uses the memoized one.
C10_LoadedOnce ==
    /\ loads <= 1
    /\ downloads <= 1
    /\ (loads = 1) = (load_cache # <<>>)
    /\ (generator # "None") => (load_cache # <<>> /\ generator = load_cache[1].generator)

\* C10 witness: two calls of the pipeline on one load.
C10_Witness == calls > 1 /\ loads = 1 /\ generator = "pipeline"

====
